---- MODULE Spec2Model ----
(***************************************************************************)
(* A model of the WhatsApp image bot (src/index.js), of its image viewer   *)
(* (src/view.js) and of the viewer's two other builds kept in the          *)
(* repository (src/unnamed/part_000, src/unnamed/part_001).                *)
(*                                                                         *)
(* Four parts, each with specifications of its own:                        *)
(*   - the viewer's database connection manager, connectDB                 *)
(*     (SpecConn: the three builds, SpecView: src/view.js alone);          *)
(*   - the viewer's TTL cache, getCachedData / setCachedData (SpecCache);  *)
(*   - the bot's session controller and its message handler                *)
(*     (SpecSession: connection.update events, SpecIngest: messages.upsert *)
(*     events on an open socket);                                          *)
(*   - the viewer's routes over the cache, connectDB and the collection    *)
(*     (SpecImage: GET /api/image/:id in view.js, SpecList: the listings   *)
(*     of view.js and of the paging build, SpecLive: both routes with      *)
(*     every await ending, SpecEndToEnd: the bot's handler together with   *)
(*     the image route).                                                   *)
(* Node runs every callback to its next await without interleaving, so an  *)
(* action is one such run: a handler up to its first await, or the         *)
(* continuation of one await.                                              *)
(***************************************************************************)
EXTENDS Integers, Sequences, FiniteSets

VARIABLES
    \* ---- connection manager (view.js:39-68 and the other builds)
    variant,             \* which build of the viewer runs
    isConnected,         \* let isConnected
    connectionPromise,   \* let connectionPromise (NoPromise: null)
    connectionAttempts,  \* let connectionAttempts (part_001:154)
    attempts,            \* the mongoose.connect calls made so far, each with its outcome
    caller,              \* the request handlers at their `await connectDB()`
    timers,              \* pending setTimeout(connectDB, 2000) callbacks (part_001:191)
    timerCalls,          \* history: the attempts whose promise a timer's connectDB() got and dropped
    \* ---- TTL cache (view.js:80-96)
    cache,               \* const cache = new Map()
    now,                 \* Date.now()
    got,                 \* the last getCachedData call: its key, instant and result
    lastSet,             \* history: per key the last setCachedData call
    \* ---- bot (index.js)
    connectCalls,        \* history: number of connectToWhatsApp() calls made
    pendingConnects,     \* connectToWhatsApp() calls awaiting useMultiFileAuthState
    socks,               \* the sockets made, each with what its transport last reported
    lastUpdate,          \* the last connection.update event delivered
    loggedOut,           \* history: a closure with reason loggedOut has been reported
    tasks,               \* the invocations of the messages.upsert handler
    images,              \* the images collection of the database
    sent,                \* the messages sent with sock.sendMessage
    nextOid,             \* the ObjectIds handed out so far
    \* ---- the viewer's routes (view.js:98-258 and the other builds)
    req,                 \* the HTTP requests: where each handler is and what it answered
    filledBy             \* history: per cache key the request that last filled it

connVars == <<variant, isConnected, connectionPromise, connectionAttempts, attempts, caller, timers, timerCalls>>
cacheVars == <<cache, now, got, lastSet>>
sessionVars == <<connectCalls, pendingConnects, socks, lastUpdate, loggedOut>>
ingestVars == <<tasks, images, sent, nextOid>>
httpVars == <<req, filledBy>>
vars == <<connVars, cacheVars, sessionVars, ingestVars, httpVars>>

Range(s) == {s[i] : i \in DOMAIN s}

(***************************************************************************)
(* Bounds of the model.                                                    *)
(***************************************************************************)
NumCallers == 2      \* request handlers that may be at `await connectDB()` at once
MaxAttempts == 3     \* mongoose.connect calls in one run
MaxTicks == 5        \* the clock's sampled instants, TickMs apart
MaxConnects == 4     \* connectToWhatsApp() calls in one run
MaxUpdates == 5      \* connection.update events in one run
MaxDeliveries == 2   \* messages.upsert events in one run
MaxRecords == 3      \* records the bot stores while the viewer's routes are exercised
MaxPage == 2         \* page numbers requested

Callers == 1..NumCallers

(***************************************************************************)
(* The connection manager.                                                 *)
(*   "view":   src/view.js:39-68           shared promise, error rethrown  *)
(*   "simple": src/unnamed/part_000:38-56  no shared promise, error caught *)
(*   "retry":  src/unnamed/part_001:152-200 shared promise, retry timer    *)
(***************************************************************************)
Variants == {"view", "simple", "retry"}

NoPromise == 0       \* connectionPromise = null
Immediate == 0       \* connectDB returned without a connection attempt to await
MAX_RETRIES == 3

IdleCaller == [pc |-> "idle", att |-> Immediate]

InitConnOf(vs) ==
    /\ variant \in vs
    /\ isConnected = FALSE
    /\ connectionPromise = NoPromise
    /\ connectionAttempts = 0
    /\ attempts = <<>>
    /\ caller = [c \in Callers |-> IdleCaller]
    /\ timers = 0
    /\ timerCalls = {}

Pending == {a \in DOMAIN attempts : attempts[a] = "pending"}

\* What the promise returned by the connectDB call that started attempt a settles
\* to.  view.js and the retry build rethrow the error from their .catch; the
\* simple build catches it inside connectDB, whose promise then resolves.
Settled(a) ==
    IF attempts[a] = "pending" THEN "pending"
    ELSE IF variant = "simple" THEN "resolved"
    ELSE IF attempts[a] = "connected" THEN "resolved"
    ELSE "rejected"

\* connectDB skipping its `if (isConnected) return` test.
ConnectDB_NoConnectedTest(ret) ==
    IF variant # "simple" /\ connectionPromise # NoPromise THEN
        /\ ret = connectionPromise
        /\ UNCHANGED <<connectionPromise, connectionAttempts, attempts>>
    ELSE
        /\ Len(attempts) < MaxAttempts
        /\ ret = Len(attempts) + 1
        /\ attempts' = Append(attempts, "pending")
        /\ connectionPromise' = IF variant = "simple" THEN NoPromise ELSE ret
        /\ connectionAttempts' =
               IF variant = "retry" THEN connectionAttempts + 1 ELSE connectionAttempts

\* One call of connectDB, up to its return; ret is the attempt whose promise the
\* call returns (or awaits, in the simple build), Immediate when it returns at once.
ConnectDB(ret) ==
    IF isConnected THEN
        /\ ret = Immediate
        /\ UNCHANGED <<connectionPromise, connectionAttempts, attempts>>
    ELSE IF variant # "simple" /\ connectionPromise # NoPromise THEN
        /\ ret = connectionPromise
        /\ UNCHANGED <<connectionPromise, connectionAttempts, attempts>>
    ELSE
        /\ Len(attempts) < MaxAttempts
        /\ ret = Len(attempts) + 1
        /\ attempts' = Append(attempts, "pending")
        /\ connectionPromise' = IF variant = "simple" THEN NoPromise ELSE ret
        /\ connectionAttempts' =
               IF variant = "retry" THEN connectionAttempts + 1 ELSE connectionAttempts

\* A request handler reaches `await connectDB()`.
Call(c) ==
    /\ caller[c].pc # "awaiting"
    /\ \E ret \in 0..MaxAttempts :
          /\ ConnectDB(ret)
          /\ caller' = [caller EXCEPT ![c] =
                 IF ret = Immediate THEN [pc |-> "ok", att |-> Immediate]
                 ELSE [pc |-> "awaiting", att |-> ret]]
    /\ UNCHANGED <<variant, isConnected, timers, timerCalls>>

\* The handler's await ends: it goes on to its query, or to its catch block.
Resume(c) ==
    /\ caller[c].pc = "awaiting"
    /\ Settled(caller[c].att) # "pending"
    /\ caller' = [caller EXCEPT ![c].pc =
           IF Settled(caller[c].att) = "resolved" THEN "ok" ELSE "err"]
    /\ UNCHANGED <<variant, isConnected, connectionPromise, connectionAttempts, attempts, timers, timerCalls>>

\* The success path forgetting to set the flag.
MongooseConnects_NoFlag(a) ==
    /\ a \in Pending
    /\ attempts' = [attempts EXCEPT ![a] = "connected"]
    /\ UNCHANGED <<variant, isConnected, connectionPromise, connectionAttempts, caller, timers, timerCalls>>

\* mongoose.connect resolves: .then(() => { isConnected = true; return true })
MongooseConnects(a) ==
    /\ a \in Pending
    /\ attempts' = [attempts EXCEPT ![a] = "connected"]
    /\ isConnected' = TRUE
    /\ UNCHANGED <<variant, connectionPromise, connectionAttempts, caller, timers, timerCalls>>

\* The failure path leaving the rejected promise in connectionPromise.
MongooseFails_KeepsPromise(a) ==
    /\ a \in Pending
    /\ attempts' = [attempts EXCEPT ![a] = "failed"]
    /\ isConnected' = IF variant = "simple" THEN isConnected ELSE FALSE
    /\ timers' = IF variant = "retry" /\ connectionAttempts < MAX_RETRIES
                 THEN timers + 1 ELSE timers
    /\ UNCHANGED <<variant, connectionPromise, connectionAttempts, caller, timerCalls>>

\* The failure path clearing the flag in every build.
MongooseFails_ClearsFlag(a) ==
    /\ a \in Pending
    /\ attempts' = [attempts EXCEPT ![a] = "failed"]
    /\ isConnected' = FALSE
    /\ connectionPromise' = IF variant = "simple" THEN connectionPromise ELSE NoPromise
    /\ timers' = IF variant = "retry" /\ connectionAttempts < MAX_RETRIES
                 THEN timers + 1 ELSE timers
    /\ UNCHANGED <<variant, connectionAttempts, caller, timerCalls>>

\* mongoose.connect rejects (unreachable, or serverSelectionTimeoutMS elapsed):
\* .catch(error => { isConnected = false; connectionPromise = null; throw error }),
\* with the retry timer in the retry build; the simple build only logs.
MongooseFails(a) ==
    /\ a \in Pending
    /\ attempts' = [attempts EXCEPT ![a] = "failed"]
    /\ isConnected' = IF variant = "simple" THEN isConnected ELSE FALSE
    /\ connectionPromise' = IF variant = "simple" THEN connectionPromise ELSE NoPromise
    /\ timers' = IF variant = "retry" /\ connectionAttempts < MAX_RETRIES
                 THEN timers + 1 ELSE timers
    /\ UNCHANGED <<variant, connectionAttempts, caller, timerCalls>>

\* The retry build's timer fires: connectDB() is called and its promise dropped.
RetryTimer ==
    /\ timers > 0
    /\ timers' = timers - 1
    /\ \E ret \in 0..MaxAttempts :
          /\ ConnectDB(ret)
          /\ timerCalls' = IF ret = Immediate THEN timerCalls ELSE timerCalls \cup {ret}
    /\ UNCHANGED <<variant, isConnected, caller>>

(***************************************************************************)
(* The TTL cache (src/view.js:80-96).  Time is Date.now() in milliseconds, *)
(* sampled at the instants of Instants.                                    *)
(***************************************************************************)
CACHE_TTL == 5 * 60 * 1000
CACHE_TTL_RETRY == 1 * 60 * 1000
\* The TTL of the build that runs.
Ttl == IF variant = "retry" THEN CACHE_TTL_RETRY ELSE CACHE_TTL
TickMs == 2 * 60 * 1000
Instants == {i * TickMs : i \in 0..MaxTicks} \cup {CACHE_TTL - 1, CACHE_TTL, CACHE_TTL + 1}

CacheKeys == {"image_1", "all_images"}
CacheValues == {"v1", "v2"}
Null == "null"
NoGet == [key |-> Null, at |-> 0, value |-> Null]
EmptyMap == [k \in {} |-> Null]

InitCache ==
    /\ cache = EmptyMap
    /\ now = 0
    /\ got = NoGet
    /\ lastSet = EmptyMap

\* getCachedData returning the entry whatever its age.
getCachedData_IgnoresAge(key) ==
    IF key \in DOMAIN cache THEN cache[key].data ELSE Null

\* const getCachedData = (key) => ...: the value returned.
getCachedData(key) ==
    IF key \in DOMAIN cache /\ now - cache[key].timestamp < Ttl
    THEN cache[key].data
    ELSE Null

\* setCachedData keeping the timestamp of an entry it overwrites.
setCachedData_KeepsTimestamp(key, data) ==
    [k \in DOMAIN cache \cup {key} |->
        IF k = key
        THEN [data |-> data,
              timestamp |-> IF key \in DOMAIN cache THEN cache[key].timestamp ELSE now]
        ELSE cache[k]]

\* const setCachedData = (key, data) => ...: the map after the call.
setCachedData(key, data) ==
    [k \in DOMAIN cache \cup {key} |->
        IF k = key THEN [data |-> data, timestamp |-> now] ELSE cache[k]]

\* What a read at this instant makes of the entry under key.
EntryState(key) ==
    IF key \notin DOMAIN cache THEN "absent"
    ELSE IF now - cache[key].timestamp < Ttl THEN "valid"
    ELSE "expired"

\* A call of setCachedData(key, data).
CacheSet(key, data) ==
    /\ cache' = setCachedData(key, data)
    /\ lastSet' = [k \in DOMAIN lastSet \cup {key} |->
           IF k = key THEN [value |-> data, at |-> now, over |-> EntryState(key)]
           ELSE lastSet[k]]
    /\ UNCHANGED <<now, got>>

\* A getCachedData that deletes the expired entry it finds.
CacheGet_Evicts(key) ==
    /\ got' = [key |-> key, at |-> now, value |-> getCachedData(key)]
    /\ cache' = IF EntryState(key) = "expired"
                THEN [k \in DOMAIN cache \ {key} |-> cache[k]]
                ELSE cache
    /\ UNCHANGED <<now, lastSet>>

\* A call of getCachedData(key).
CacheGet(key) ==
    /\ got' = [key |-> key, at |-> now, value |-> getCachedData(key)]
    /\ UNCHANGED <<cache, now, lastSet>>

\* Time passes, to an instant of S.
TickIn(S) ==
    /\ \E t \in S : t > now /\ now' = t
    /\ UNCHANGED <<cache, got, lastSet>>

\* Time passes.
Tick == TickIn(Instants)

(***************************************************************************)
(* The bot's session controller (src/index.js:44-68).  connectToWhatsApp   *)
(* awaits the saved credentials, makes a socket and registers its handlers *)
(* on it; no handler is ever removed.  The transport is the environment:   *)
(* it reports "open" on a connecting socket and may report "close", with   *)
(* any reason, on every socket whose handler is registered.                *)
(***************************************************************************)
Reasons == {"loggedOut", "connectionLost", "noError"}
NoUpdate == [n |-> 0, sock |-> 0, connection |-> "none", reason |-> "noError"]

InitSession ==
    /\ connectCalls = 1          \* connectToWhatsApp() at index.js:114
    /\ pendingConnects = 1
    /\ socks = <<>>
    /\ lastUpdate = NoUpdate
    /\ loggedOut = FALSE

\* const shouldReconnect = lastDisconnect?.error?.output?.statusCode !== DisconnectReason.loggedOut
shouldReconnect(reason) == reason # "loggedOut"

\* useMultiFileAuthState resolves: makeWASocket, sock.ev.on(...) for the handlers.
SocketCreated ==
    /\ pendingConnects > 0
    /\ pendingConnects' = pendingConnects - 1
    /\ socks' = Append(socks, "connecting")
    /\ UNCHANGED <<connectCalls, lastUpdate, loggedOut>>

\* connection.update with connection === "open": logged only.
UpdateOpen(s) ==
    /\ lastUpdate.n < MaxUpdates
    /\ socks[s] = "connecting"
    /\ socks' = [socks EXCEPT ![s] = "open"]
    /\ lastUpdate' = [n |-> lastUpdate.n + 1, sock |-> s, connection |-> "open", reason |-> "noError"]
    /\ UNCHANGED <<connectCalls, pendingConnects, loggedOut>>

\* The close branch never reconnecting.
UpdateClose_NeverReconnects(s, reason) ==
    /\ lastUpdate.n < MaxUpdates
    /\ connectCalls < MaxConnects
    /\ socks' = [socks EXCEPT ![s] = "closed"]
    /\ lastUpdate' = [n |-> lastUpdate.n + 1, sock |-> s, connection |-> "close", reason |-> reason]
    /\ loggedOut' = (loggedOut \/ reason = "loggedOut")
    /\ UNCHANGED <<connectCalls, pendingConnects>>

\* connection.update with connection === "close": connectToWhatsApp() is called
\* when shouldReconnect, and the call runs to its await.
UpdateClose(s, reason) ==
    /\ lastUpdate.n < MaxUpdates
    /\ connectCalls < MaxConnects
    /\ socks' = [socks EXCEPT ![s] = "closed"]
    /\ lastUpdate' = [n |-> lastUpdate.n + 1, sock |-> s, connection |-> "close", reason |-> reason]
    /\ loggedOut' = (loggedOut \/ reason = "loggedOut")
    /\ IF shouldReconnect(reason)
       THEN /\ connectCalls' = connectCalls + 1
            /\ pendingConnects' = pendingConnects + 1
       ELSE UNCHANGED <<connectCalls, pendingConnects>>

(***************************************************************************)
(* The messages.upsert handler (src/index.js:70-107) and the images        *)
(* collection (src/models/Image.js).  A message is its key (id, remoteJid) *)
(* and its body: NoBody (m.message is absent), or the body's keys in order *)
(* with the image's mimetype and media.  A delivery is the event's         *)
(* messages array.                                                         *)
(***************************************************************************)
NoBody == <<"no message">>
NoMime == "none"
NoDoc == "none"

\* m.key.remoteJid: the chat a message id came from.
SenderOf(id) == IF id = "m1" THEN "s1" ELSE "s2"

Msg(id, keys, mime, media) ==
    [id |-> id, remoteJid |-> SenderOf(id), keys |-> keys, mimetype |-> mime, media |-> media]

ImageMsgs ==
    { Msg(id, <<"imageMessage">>, "image/png", "d1") : id \in {"m1", "m2"} }
    \cup { Msg(id, <<"imageMessage">>, NoMime, "d2") : id \in {"m1", "m2"} }
OtherMsgs ==
    { Msg("m1", NoBody, NoMime, "d1"),
      Msg("m1", <<>>, NoMime, "d1"),
      Msg("m1", <<"conversation">>, NoMime, "d1"),
      Msg("m2", <<"messageContextInfo", "imageMessage">>, "image/png", "d2") }
Msgs == ImageMsgs \cup OtherMsgs
\* The deliveries of two messages: a text or an image first, a text or an image second.
FirstOfTwo ==
    { Msg("m1", <<"conversation">>, NoMime, "d1"),
      Msg("m1", <<"imageMessage">>, "image/png", "d1") }
SecondOfTwo ==
    { Msg("m2", <<"conversation">>, NoMime, "d1"),
      Msg("m2", <<"imageMessage">>, "image/png", "d2") }
Deliveries ==
    {<<>>} \cup {<<m>> : m \in Msgs} \cup {<<m, n>> : m \in FirstOfTwo, n \in SecondOfTwo}

HasImage(m) == m.keys # NoBody /\ "imageMessage" \in Range(m.keys)
CarriesImage(d) == \E j \in DOMAIN d : HasImage(d[j])

InitIngest ==
    /\ tasks = <<>>
    /\ images = <<>>
    /\ sent = <<>>
    /\ nextOid = 1

\* Object.keys(m.message)[0]
messageType(m) == IF Len(m.keys) = 0 THEN "undefined" ELSE m.keys[1]

\* The handler's synchronous part taking every message with a body for an image.
HandlerEntry_NoTypeTest(d) ==
    IF Len(d) = 0 THEN "threw"
    ELSE IF d[1].keys = NoBody THEN "returned"
    ELSE "download"

\* The handler up to its first await: where a delivery leaves it.
\*   const m = messages[0]; if (!m.message) return;
\*   if (messageType === 'imageMessage') { try { ... await downloadMediaMessage
HandlerEntry(d) ==
    IF Len(d) = 0 THEN "threw"                  \* m is undefined: m.message throws
    ELSE IF d[1].keys = NoBody THEN "returned"
    ELSE IF messageType(d[1]) = "imageMessage" THEN "download"
    ELSE "returned"

\* The transport delivers messages.upsert on an open socket.
Upsert(s, d) ==
    /\ Len(tasks) < MaxDeliveries
    /\ socks[s] = "open"
    /\ tasks' = Append(tasks, [sock |-> s, messages |-> d, pc |-> HandlerEntry(d), doc |-> NoDoc, error |-> "none"])
    /\ UNCHANGED <<images, sent, nextOid>>

\* new Image({...}) after the download: the document about to be saved.
NewImage(m, oid) ==
    [ _id |-> oid,
      messageId |-> m.id,
      sender |-> m.remoteJid,
      timestamp |-> now,
      imageData |-> m.media,
      contentType |-> IF m.mimetype = NoMime THEN "image/jpeg" ELSE m.mimetype,
      caption |-> "" ]

\* The download resolving in a handler that keeps `m` in a variable shared by
\* the invocations: the document is built from the message delivered last.
DownloadOk_SharedMessage(i) ==
    LET last == tasks[Len(tasks)]
        m == IF HandlerEntry(last.messages) = "download" THEN last.messages[1]
             ELSE tasks[i].messages[1]
    IN  /\ tasks[i].pc = "download"
        /\ tasks' = [tasks EXCEPT ![i].pc = "save", ![i].doc = NewImage(m, nextOid)]
        /\ nextOid' = nextOid + 1
        /\ UNCHANGED <<images, sent>>

\* downloadMediaMessage resolves; the document is built and image.save() awaited.
DownloadOk(i) ==
    /\ tasks[i].pc = "download"
    /\ tasks' = [tasks EXCEPT ![i].pc = "save",
                              ![i].doc = NewImage(tasks[i].messages[1], nextOid)]
    /\ nextOid' = nextOid + 1
    /\ UNCHANGED <<images, sent>>

\* downloadMediaMessage rejects: the catch block awaits sock.sendMessage.
DownloadFails(i) ==
    /\ tasks[i].pc = "download"
    /\ tasks' = [tasks EXCEPT ![i].pc = "notify", ![i].error = "download"]
    /\ UNCHANGED <<images, sent, nextOid>>

\* The unique index on messageId (Image.js:4-8).
Duplicate(doc) == \E j \in DOMAIN images : images[j].messageId = doc.messageId

\* image.save() resolving on a collection without the unique index.
SaveOk_NoUniqueIndex(i) ==
    /\ tasks[i].pc = "save"
    /\ images' = Append(images, tasks[i].doc)
    /\ tasks' = [tasks EXCEPT ![i].pc = "saved"]
    /\ UNCHANGED <<sent, nextOid>>

\* image.save() resolving with a confirmation sent to the sender.
SaveOk_Notifies(i) ==
    /\ tasks[i].pc = "save"
    /\ ~Duplicate(tasks[i].doc)
    /\ images' = Append(images, tasks[i].doc)
    /\ sent' = Append(sent, [to |-> tasks[i].messages[1].remoteJid, task |-> i])
    /\ tasks' = [tasks EXCEPT ![i].pc = "saved"]
    /\ UNCHANGED nextOid

\* image.save() resolves: the record is stored, nothing is sent.
SaveOk(i) ==
    /\ tasks[i].pc = "save"
    /\ ~Duplicate(tasks[i].doc)
    /\ images' = Append(images, tasks[i].doc)
    /\ tasks' = [tasks EXCEPT ![i].pc = "saved"]
    /\ UNCHANGED <<sent, nextOid>>

\* image.save() rejects, with E11000 for a duplicate messageId or with another
\* error (the database is unreachable): the catch block awaits sock.sendMessage.
SaveFails(i) ==
    /\ tasks[i].pc = "save"
    /\ \E e \in (IF Duplicate(tasks[i].doc) THEN {"duplicate", "save"} ELSE {"save"}) :
           tasks' = [tasks EXCEPT ![i].pc = "notify", ![i].error = e]
    /\ UNCHANGED <<images, sent, nextOid>>

\* sock.sendMessage resolving after a second copy of the notice went out.
SendOk_Twice(i) ==
    /\ tasks[i].pc = "notify"
    /\ sent' = sent \o << [to |-> tasks[i].messages[1].remoteJid, task |-> i],
                          [to |-> tasks[i].messages[1].remoteJid, task |-> i] >>
    /\ tasks' = [tasks EXCEPT ![i].pc = "notified"]
    /\ UNCHANGED <<images, nextOid>>

\* sock.sendMessage resolves: the sender has the notice.
SendOk(i) ==
    /\ tasks[i].pc = "notify"
    /\ sent' = Append(sent, [to |-> tasks[i].messages[1].remoteJid, task |-> i])
    /\ tasks' = [tasks EXCEPT ![i].pc = "notified"]
    /\ UNCHANGED <<images, nextOid>>

\* sock.sendMessage rejects inside the catch block: the handler's promise rejects.
SendFails(i) ==
    /\ tasks[i].pc = "notify"
    /\ tasks' = [tasks EXCEPT ![i].pc = "rejected"]
    /\ UNCHANGED <<images, sent, nextOid>>

(***************************************************************************)
(* The viewer's routes: GET /api/image/:id, GET /api/images and GET /      *)
(* (src/view.js:98-258, src/unnamed/part_000:68-95, part_001:253-421).     *)
(* Request c is the handler whose `await connectDB()` is caller[c].  A     *)
(* handler looks its cache key up, awaits connectDB, awaits its query and  *)
(* answers; the simple build has no cache, and only the retry build pages  *)
(* its listing.  The database answers a query from the collection as it    *)
(* is when the query runs; the handler goes on when the answer arrives.    *)
(* The bot is another process: the viewer sees its image.save() calls.     *)
(***************************************************************************)
OidStrings == <<"o1", "o2", "o3", "o4", "o5">>
NoOid == 0
ReqIds == {"o1", "o2", "m1"}
Limits == {1, 2}
Pages == 1..MaxPage
HttpInstants == {CACHE_TTL}

\* The cast taking the message id m1 for the id of the first record.
castObjectId_ResolvesMessageId(id) ==
    IF id = "m1" THEN 1
    ELSE IF \E n \in DOMAIN OidStrings : OidStrings[n] = id
    THEN CHOOSE n \in DOMAIN OidStrings : OidStrings[n] = id
    ELSE NoOid

\* findById's cast of req.params.id: the ObjectId a string of 24 hex digits
\* denotes, NoOid (a CastError) for any other string.
castObjectId(id) ==
    IF \E n \in DOMAIN OidStrings : OidStrings[n] = id
    THEN CHOOSE n \in DOMAIN OidStrings : OidStrings[n] = id
    ELSE NoOid

\* `image_${req.params.id}`
ImageKeyOf ==
    [o1 |-> "image_o1", o2 |-> "image_o2", o3 |-> "image_o3", o4 |-> "image_o4",
     o5 |-> "image_o5", m1 |-> "image_m1"]
\* `images_page_${page}`
PageKeys == <<"images_page_1", "images_page_2", "images_page_3", "images_page_4">>

NoQuery == [route |-> "none", id |-> "-", page |-> 0, limit |-> 0]
ImageQuery(id) == [route |-> "image", id |-> id, page |-> 0, limit |-> 0]
ListQuery(page, limit) == [route |-> "list", id |-> "-", page |-> page, limit |-> limit]
HomeQuery == [route |-> "home", id |-> "-", page |-> 0, limit |-> 0]
IdleReq ==
    [pc |-> "idle", q |-> NoQuery, at |-> 0, res |-> <<>>, seen |-> 0,
     status |-> 0, body |-> <<>>, from |-> "none", filler |-> NoQuery, nres |-> 0]

InitHttp ==
    /\ req = [c \in Callers |-> IdleReq]
    /\ filledBy = EmptyMap

UseCache == variant # "simple"

\* The cache key of a request.
KeyOf(q) ==
    IF q.route = "image" THEN ImageKeyOf[q.id]
    ELSE IF q.route = "list" /\ variant = "retry" THEN PageKeys[q.page]
    ELSE "all_images"

\* if (cachedImages) taking an entry of any age for a hit.
Hit_IgnoresAge(key) == UseCache /\ key \in DOMAIN cache

\* if (cachedImage) / if (cachedImages): getCachedData returned an entry.
Hit(key) == UseCache /\ EntryState(key) = "valid"

\* What a handler sends from the cached value.
CachedBody(q) ==
    IF q.route = "image" THEN <<getCachedData(KeyOf(q))>> ELSE getCachedData(KeyOf(q))

\* res.send / res.json / res.status(...).send: the request is answered, from the
\* cache, from the database ("db"), or by the catch block after connectDB
\* ("connect"), the cast of the id ("cast") or the query ("query") threw.
Responded(r, status, body, from, filler) ==
    [r EXCEPT !.pc = "done", !.status = status, !.body = body,
              !.from = from, !.filler = filler, !.nres = @ + 1]

Perms(n) == {p \in [1..n -> 1..n] : \A i, j \in 1..n : i # j => p[i] # p[j]}

\* Image.find().sort({ timestamp: -1 }): the orders the database may return, any
\* order of the records of equal timestamp.
SortedByTimestamp ==
    IF images = <<>> THEN {<<>>}
    ELSE { [i \in 1..Len(images) |-> images[p[i]]] :
             p \in {p \in Perms(Len(images)) :
                      \A i \in 1..(Len(images) - 1) :
                          images[p[i]].timestamp >= images[p[i + 1]].timestamp} }

\* .skip((page - 1) * limit).limit(limit)
PageOf(s, page, limit) ==
    LET skip == (page - 1) * limit
        k == IF Len(s) - skip < 0 THEN 0
             ELSE IF Len(s) - skip < limit THEN Len(s) - skip
             ELSE limit
    IN  IF k = 0 THEN <<>> ELSE [i \in 1..k |-> s[skip + i]]

\* A findById answering with the first record of the collection, whatever the id.
findById_IgnoresId(oid) == IF images = <<>> THEN <<>> ELSE <<images[1]>>

\* Image.findById(id): the record of that _id if there is one, as a sequence of
\* at most one record.
findById(oid) == SelectSeq(images, LAMBDA d : d._id = oid)

\* The answers the database may give to a request's query.
Results(q) ==
    IF q.route = "image" THEN {findById(castObjectId(q.id))}
    ELSE IF q.route = "list" /\ variant = "retry"
         THEN {PageOf(s, q.page, q.limit) : s \in SortedByTimestamp}
    ELSE SortedByTimestamp

\* mongoose has a connection to the database.
Ready == \E a \in DOMAIN attempts : attempts[a] = "connected"

\* A request arrives: the handler runs from its cache lookup to its answer (a
\* hit) or through `await connectDB()` to the await of its query.
ReqStart(c, q) ==
    /\ req[c].pc = "idle"
    /\ IF Hit(KeyOf(q))
       THEN /\ req' = [req EXCEPT ![c] =
                   Responded([req[c] EXCEPT !.q = q, !.at = now, !.seen = Len(images)],
                             200, CachedBody(q), "cache", filledBy[KeyOf(q)])]
            /\ UNCHANGED connVars
       ELSE /\ Call(c)
            /\ req' = [req EXCEPT ![c].q = q,
                                  ![c].at = now,
                                  ![c].seen = Len(images),
                                  ![c].pc = IF caller'[c].pc = "ok" THEN "querying"
                                            ELSE "connecting"]
    /\ UNCHANGED <<cacheVars, filledBy>>

\* `await connectDB()` ending with no catch block around it: a rejection leaves
\* the request unanswered.
ReqResume_NoCatch(c) ==
    /\ req[c].pc = "connecting"
    /\ Resume(c)
    /\ req' = [req EXCEPT ![c].pc = IF caller'[c].pc = "ok" THEN "querying" ELSE "threw"]
    /\ UNCHANGED <<cacheVars, filledBy>>

\* `await connectDB()` ends: the query is sent, or the catch block answers 500.
ReqResume(c) ==
    /\ req[c].pc = "connecting"
    /\ Resume(c)
    /\ req' = [req EXCEPT ![c] =
           IF caller'[c].pc = "ok" THEN [req[c] EXCEPT !.pc = "querying"]
           ELSE Responded(req[c], 500, <<>>, "connect", NoQuery)]
    /\ UNCHANGED <<cacheVars, filledBy>>

\* The database runs the query of request c.
QueryRuns(c) ==
    /\ req[c].pc = "querying"
    /\ Ready
    /\ req[c].q.route = "image" => castObjectId(req[c].q.id) # NoOid
    /\ \E r \in Results(req[c].q) :
          req' = [req EXCEPT ![c].pc = "result", ![c].res = r, ![c].seen = Len(images)]
    /\ UNCHANGED <<connVars, cacheVars, filledBy>>

\* The query rejects (a CastError for an id that is no ObjectId, no connection
\* within the buffering timeout, a database error): the catch block answers 500.
QueryFails(c) ==
    /\ req[c].pc = "querying"
    /\ req' = [req EXCEPT ![c] =
           Responded(req[c], 500, <<>>,
                     IF req[c].q.route = "image" /\ castObjectId(req[c].q.id) = NoOid
                     THEN "cast" ELSE "query",
                     NoQuery)]
    /\ UNCHANGED <<connVars, cacheVars, filledBy>>

\* The handler going on after its query and caching whatever came back.
QueryReturns_CachesNotFound(c) ==
    LET r == req[c]
        key == KeyOf(r.q)
        body == IF r.q.route = "image" /\ r.res # <<>>
                THEN <<[contentType |-> r.res[1].contentType, imageData |-> r.res[1].imageData]>>
                ELSE r.res
    IN  /\ r.pc = "result"
        /\ req' = [req EXCEPT ![c] =
               IF r.q.route = "image" /\ r.res = <<>>
               THEN Responded(r, 404, <<>>, "db", NoQuery)
               ELSE Responded(r, 200, body, "db", r.q)]
        /\ IF UseCache
           THEN /\ cache' = setCachedData(key, IF r.q.route = "image" /\ r.res # <<>>
                                               THEN body[1] ELSE body)
                /\ filledBy' = [k \in DOMAIN filledBy \cup {key} |->
                                   IF k = key THEN r.q ELSE filledBy[k]]
           ELSE UNCHANGED <<cache, filledBy>>
        /\ UNCHANGED <<connVars, now, got, lastSet>>

\* The handler answering from the database without the setCachedData call.
QueryReturns_NoFill(c) ==
    LET r == req[c]
        body == IF r.q.route = "image" /\ r.res # <<>>
                THEN <<[contentType |-> r.res[1].contentType, imageData |-> r.res[1].imageData]>>
                ELSE r.res
    IN  /\ r.pc = "result"
        /\ req' = [req EXCEPT ![c] =
               IF r.q.route = "image" /\ r.res = <<>>
               THEN Responded(r, 404, <<>>, "db", NoQuery)
               ELSE Responded(r, 200, body, "db", r.q)]
        /\ UNCHANGED <<connVars, cacheVars, filledBy>>

\* The answer of the query arrives: 404 for no record, else setCachedData (in the
\* builds with a cache) and the answer.
QueryReturns(c) ==
    LET r == req[c]
        key == KeyOf(r.q)
        body == IF r.q.route = "image" /\ r.res # <<>>
                THEN <<[contentType |-> r.res[1].contentType, imageData |-> r.res[1].imageData]>>
                ELSE r.res
    IN  /\ r.pc = "result"
        /\ IF r.q.route = "image" /\ r.res = <<>>
           THEN /\ req' = [req EXCEPT ![c] = Responded(r, 404, <<>>, "db", NoQuery)]
                /\ UNCHANGED <<cache, filledBy>>
           ELSE /\ req' = [req EXCEPT ![c] = Responded(r, 200, body, "db", r.q)]
                /\ IF UseCache
                   THEN /\ cache' = setCachedData(key, IF r.q.route = "image"
                                                       THEN body[1] ELSE body)
                        /\ filledBy' = [k \in DOMAIN filledBy \cup {key} |->
                                           IF k = key THEN r.q ELSE filledBy[k]]
                   ELSE UNCHANGED <<cache, filledBy>>
        /\ UNCHANGED <<connVars, now, got, lastSet>>

\* The image messages the bot receives while the routes are exercised, in order.
StoredMsgs ==
    << Msg("m1", <<"imageMessage">>, "image/png", "d1"),
       Msg("m2", <<"imageMessage">>, NoMime, "d2"),
       Msg("m3", <<"imageMessage">>, "image/png", "d2"),
       Msg("m4", <<"imageMessage">>, "image/png", "d1"),
       Msg("m5", <<"imageMessage">>, NoMime, "d1") >>

\* The bot's handler stores the image of its next message: the download, new
\* Image({...}) and image.save() of index.js:79-96, as the viewer sees them.
BotSaves ==
    /\ Len(images) < MaxRecords
    /\ ~Duplicate(NewImage(StoredMsgs[nextOid], nextOid))
    /\ images' = Append(images, NewImage(StoredMsgs[nextOid], nextOid))
    /\ nextOid' = nextOid + 1
    /\ UNCHANGED <<tasks, sent>>

(***************************************************************************)
(* Specifications.                                                         *)
(***************************************************************************)
InitConn == InitConnOf(Variants) /\ InitCache /\ InitSession /\ InitIngest /\ InitHttp
InitView == InitConnOf({"view"}) /\ InitCache /\ InitSession /\ InitIngest /\ InitHttp

NextView ==
    \/ \E c \in Callers : Call(c) /\ UNCHANGED <<cacheVars, sessionVars, ingestVars, httpVars>>
    \/ \E c \in Callers : Resume(c) /\ UNCHANGED <<cacheVars, sessionVars, ingestVars, httpVars>>
    \/ \E a \in DOMAIN attempts : MongooseConnects(a) /\ UNCHANGED <<cacheVars, sessionVars, ingestVars, httpVars>>
    \/ \E a \in DOMAIN attempts : MongooseFails(a) /\ UNCHANGED <<cacheVars, sessionVars, ingestVars, httpVars>>

NextConn ==
    \/ NextView
    \/ RetryTimer /\ UNCHANGED <<cacheVars, sessionVars, ingestVars, httpVars>>

NextCache ==
    \/ \E k \in CacheKeys, v \in CacheValues : CacheSet(k, v) /\ UNCHANGED <<connVars, sessionVars, ingestVars, httpVars>>
    \/ \E k \in CacheKeys : CacheGet(k) /\ UNCHANGED <<connVars, sessionVars, ingestVars, httpVars>>
    \/ Tick /\ UNCHANGED <<connVars, sessionVars, ingestVars, httpVars>>

NextSession ==
    \/ SocketCreated /\ UNCHANGED <<connVars, cacheVars, ingestVars, httpVars>>
    \/ \E s \in DOMAIN socks : UpdateOpen(s) /\ UNCHANGED <<connVars, cacheVars, ingestVars, httpVars>>
    \/ \E s \in DOMAIN socks, r \in Reasons : UpdateClose(s, r) /\ UNCHANGED <<connVars, cacheVars, ingestVars, httpVars>>

NextIngest ==
    \/ SocketCreated /\ UNCHANGED <<connVars, cacheVars, ingestVars, httpVars>>
    \/ \E s \in DOMAIN socks : UpdateOpen(s) /\ UNCHANGED <<connVars, cacheVars, ingestVars, httpVars>>
    \/ \E s \in DOMAIN socks, d \in Deliveries : Upsert(s, d) /\ UNCHANGED <<connVars, cacheVars, sessionVars, httpVars>>
    \/ \E i \in DOMAIN tasks : DownloadOk(i) /\ UNCHANGED <<connVars, cacheVars, sessionVars, httpVars>>
    \/ \E i \in DOMAIN tasks : DownloadFails(i) /\ UNCHANGED <<connVars, cacheVars, sessionVars, httpVars>>
    \/ \E i \in DOMAIN tasks : SaveOk(i) /\ UNCHANGED <<connVars, cacheVars, sessionVars, httpVars>>
    \/ \E i \in DOMAIN tasks : SaveFails(i) /\ UNCHANGED <<connVars, cacheVars, sessionVars, httpVars>>
    \/ \E i \in DOMAIN tasks : SendOk(i) /\ UNCHANGED <<connVars, cacheVars, sessionVars, httpVars>>
    \/ \E i \in DOMAIN tasks : SendFails(i) /\ UNCHANGED <<connVars, cacheVars, sessionVars, httpVars>>

\* The viewer serving the requests of Q.
NextHttp(Q) ==
    \/ \E c \in Callers, q \in Q : ReqStart(c, q) /\ UNCHANGED <<sessionVars, ingestVars>>
    \/ \E c \in Callers : ReqResume(c) /\ UNCHANGED <<sessionVars, ingestVars>>
    \/ \E c \in Callers : QueryRuns(c) /\ UNCHANGED <<sessionVars, ingestVars>>
    \/ \E c \in Callers : QueryFails(c) /\ UNCHANGED <<sessionVars, ingestVars>>
    \/ \E c \in Callers : QueryReturns(c) /\ UNCHANGED <<sessionVars, ingestVars>>
    \/ \E a \in DOMAIN attempts : MongooseConnects(a) /\ UNCHANGED <<cacheVars, sessionVars, ingestVars, httpVars>>
    \/ \E a \in DOMAIN attempts : MongooseFails(a) /\ UNCHANGED <<cacheVars, sessionVars, ingestVars, httpVars>>
    \/ BotSaves /\ UNCHANGED <<connVars, cacheVars, sessionVars, httpVars>>
    \/ TickIn(HttpInstants) /\ UNCHANGED <<connVars, sessionVars, ingestVars, httpVars>>

\* The end-to-end scenario: the image message m1 with a payload of 10 bytes is
\* delivered, and delivered again (with the same bytes or with others); the
\* viewer is asked for the image by the ObjectId of the first document made and
\* by the message id.
Bytes10 == <<137, 80, 78, 71, 13, 10, 26, 10, 0, 0>>
OtherBytes == <<255, 216, 255>>
E2EDeliveries ==
    { <<Msg("m1", <<"imageMessage">>, "image/png", Bytes10)>>,
      <<Msg("m1", <<"imageMessage">>, "image/png", OtherBytes)>> }
E2EQueries == {ImageQuery("o1"), ImageQuery("m1")}

NextEndToEnd ==
    \/ SocketCreated /\ UNCHANGED <<connVars, cacheVars, ingestVars, httpVars>>
    \/ \E s \in DOMAIN socks : UpdateOpen(s) /\ UNCHANGED <<connVars, cacheVars, ingestVars, httpVars>>
    \/ \E s \in DOMAIN socks, d \in E2EDeliveries : Upsert(s, d) /\ UNCHANGED <<connVars, cacheVars, sessionVars, httpVars>>
    \/ \E i \in DOMAIN tasks : DownloadOk(i) /\ UNCHANGED <<connVars, cacheVars, sessionVars, httpVars>>
    \/ \E i \in DOMAIN tasks : DownloadFails(i) /\ UNCHANGED <<connVars, cacheVars, sessionVars, httpVars>>
    \/ \E i \in DOMAIN tasks : SaveOk(i) /\ UNCHANGED <<connVars, cacheVars, sessionVars, httpVars>>
    \/ \E i \in DOMAIN tasks : SaveFails(i) /\ UNCHANGED <<connVars, cacheVars, sessionVars, httpVars>>
    \/ \E i \in DOMAIN tasks : SendOk(i) /\ UNCHANGED <<connVars, cacheVars, sessionVars, httpVars>>
    \/ \E i \in DOMAIN tasks : SendFails(i) /\ UNCHANGED <<connVars, cacheVars, sessionVars, httpVars>>
    \/ \E c \in Callers, q \in E2EQueries : ReqStart(c, q) /\ UNCHANGED <<sessionVars, ingestVars>>
    \/ \E c \in Callers : ReqResume(c) /\ UNCHANGED <<sessionVars, ingestVars>>
    \/ \E c \in Callers : QueryRuns(c) /\ UNCHANGED <<sessionVars, ingestVars>>
    \/ \E c \in Callers : QueryFails(c) /\ UNCHANGED <<sessionVars, ingestVars>>
    \/ \E c \in Callers : QueryReturns(c) /\ UNCHANGED <<sessionVars, ingestVars>>
    \/ \E a \in DOMAIN attempts : MongooseConnects(a) /\ UNCHANGED <<cacheVars, sessionVars, ingestVars, httpVars>>
    \/ \E a \in DOMAIN attempts : MongooseFails(a) /\ UNCHANGED <<cacheVars, sessionVars, ingestVars, httpVars>>

ImageQueries == {ImageQuery(id) : id \in ReqIds}
ListQueries == {ListQuery(p, l) : p \in Pages, l \in Limits} \cup {HomeQuery}

\* The image route over a store of at most two records.
NextImage ==
    \/ \E c \in Callers, q \in ImageQueries : ReqStart(c, q) /\ UNCHANGED <<sessionVars, ingestVars>>
    \/ \E c \in Callers : ReqResume(c) /\ UNCHANGED <<sessionVars, ingestVars>>
    \/ \E c \in Callers : QueryRuns(c) /\ UNCHANGED <<sessionVars, ingestVars>>
    \/ \E c \in Callers : QueryFails(c) /\ UNCHANGED <<sessionVars, ingestVars>>
    \/ \E c \in Callers : QueryReturns(c) /\ UNCHANGED <<sessionVars, ingestVars>>
    \/ \E a \in DOMAIN attempts : MongooseConnects(a) /\ UNCHANGED <<cacheVars, sessionVars, ingestVars, httpVars>>
    \/ \E a \in DOMAIN attempts : MongooseFails(a) /\ UNCHANGED <<cacheVars, sessionVars, ingestVars, httpVars>>
    \/ Len(images) < 2 /\ BotSaves /\ UNCHANGED <<connVars, cacheVars, sessionVars, httpVars>>
    \/ TickIn(HttpInstants) /\ UNCHANGED <<connVars, sessionVars, ingestVars, httpVars>>
NextList ==
    \/ NextHttp(ListQueries)
    \/ RetryTimer /\ UNCHANGED <<cacheVars, sessionVars, ingestVars, httpVars>>

\* The requests of the two routes in view.js and in the simple build, whose
\* every await ends: a connection attempt settles (serverSelectionTimeoutMS), a
\* query is answered or rejects (socketTimeoutMS, the buffering timeout), and a
\* continuation that can run does.
LiveQueries == {ImageQuery("o1"), ImageQuery("m1"), ListQuery(1, 1)}
NextLive ==
    \/ \E c \in Callers, q \in LiveQueries : ReqStart(c, q) /\ UNCHANGED <<sessionVars, ingestVars>>
    \/ \E c \in Callers : ReqResume(c) /\ UNCHANGED <<sessionVars, ingestVars>>
    \/ \E c \in Callers : QueryRuns(c) /\ UNCHANGED <<sessionVars, ingestVars>>
    \/ \E c \in Callers : QueryFails(c) /\ UNCHANGED <<sessionVars, ingestVars>>
    \/ \E c \in Callers : QueryReturns(c) /\ UNCHANGED <<sessionVars, ingestVars>>
    \/ \E a \in DOMAIN attempts : MongooseConnects(a) /\ UNCHANGED <<cacheVars, sessionVars, ingestVars, httpVars>>
    \/ \E a \in DOMAIN attempts : MongooseFails(a) /\ UNCHANGED <<cacheVars, sessionVars, ingestVars, httpVars>>
    \/ images = <<>> /\ BotSaves /\ UNCHANGED <<connVars, cacheVars, sessionVars, httpVars>>
    \/ TickIn(HttpInstants) /\ UNCHANGED <<connVars, sessionVars, ingestVars, httpVars>>
InitLive == InitConnOf({"view", "simple"}) /\ InitCache /\ InitSession /\ InitIngest /\ InitHttp
LiveFairness ==
    /\ \A c \in Callers :
          /\ WF_vars(ReqResume(c) /\ UNCHANGED <<sessionVars, ingestVars>>)
          /\ WF_vars((QueryRuns(c) \/ QueryFails(c)) /\ UNCHANGED <<sessionVars, ingestVars>>)
          /\ WF_vars(QueryReturns(c) /\ UNCHANGED <<sessionVars, ingestVars>>)
    /\ \A a \in 1..MaxAttempts :
          WF_vars((MongooseConnects(a) \/ MongooseFails(a))
                      /\ UNCHANGED <<cacheVars, sessionVars, ingestVars, httpVars>>)

InitList == InitConnOf({"view", "retry"}) /\ InitCache /\ InitSession /\ InitIngest /\ InitHttp

SpecView == InitView /\ [][NextView]_vars
SpecConn == InitConn /\ [][NextConn]_vars
SpecCache == InitView /\ [][NextCache]_vars
SpecSession == InitView /\ [][NextSession]_vars
SpecIngest == InitView /\ [][NextIngest]_vars
SpecImage == InitView /\ [][NextImage]_vars
SpecList == InitList /\ [][NextList]_vars
SpecEndToEnd == InitView /\ [][NextEndToEnd]_vars
SpecLive == InitLive /\ [][NextLive]_vars /\ LiveFairness

(***************************************************************************)
(* Properties.                                                             *)
(***************************************************************************)

\* A step in which request handler c calls connectDB.
CallStep(c) == caller[c].pc # "awaiting" /\ caller'[c] # caller[c]

\* C1: at any time at most one connection attempt is in flight, so the calls
\* made while disconnected and before the first attempt settles share one
\* mongoose.connect call.
C1_OneAttemptInFlight == Cardinality(Pending) <= 1

\* C2: when a connection attempt fails, no caller that awaited it observes a
\* successful return of connectDB.
C2_FailureReachesCallers ==
    \A c \in Callers :
        (caller[c].att # Immediate /\ attempts[caller[c].att] = "failed")
            => caller[c].pc # "ok"

\* C3: a failing attempt leaves isConnected false and connectionPromise null, and
\* the next connectDB call after a failure starts a fresh attempt, which is the
\* one it awaits.
C3_FailureClearsMarker ==
    [][ /\ \A a \in DOMAIN attempts :
              (attempts[a] = "pending" /\ attempts'[a] = "failed")
                  => (~isConnected' /\ connectionPromise' = NoPromise)
        /\ \A c \in Callers :
              (CallStep(c) /\ ~isConnected /\ Pending = {} /\ "failed" \in Range(attempts))
                  => /\ attempts' = Append(attempts, "pending")
                     /\ caller'[c] = [pc |-> "awaiting", att |-> Len(attempts')]
      ]_vars

C3_Witness ==
    \E c \in Callers, a \in DOMAIN attempts :
        /\ attempts[a] = "failed"
        /\ caller[c].pc = "awaiting"
        /\ caller[c].att > a
        /\ attempts[caller[c].att] = "pending"

\* C4 as stated: after a successful attempt the state is connected, the in-flight
\* marker connectionPromise is cleared and the callers that awaited the attempt
\* have success.
C4_MarkerClearedOnSuccess ==
    \A a \in DOMAIN attempts :
        attempts[a] = "connected"
            => /\ isConnected
               /\ connectionPromise = NoPromise
               /\ \A c \in Callers :
                     (caller[c].att = a /\ caller[c].pc # "awaiting") => caller[c].pc = "ok"

\* C4 as amended: after a successful attempt the state is connected and the
\* callers that awaited the attempt have success, while connectionPromise is not
\* cleared: it keeps the resolved promise of that attempt.
C4_SuccessKeepsPromise ==
    \A a \in DOMAIN attempts :
        attempts[a] = "connected"
            => /\ isConnected
               /\ connectionPromise = a
               /\ \A c \in Callers :
                     (caller[c].att = a /\ caller[c].pc # "awaiting") => caller[c].pc = "ok"

C4_Witness ==
    \E c \in Callers :
        /\ caller[c].pc = "ok"
        /\ caller[c].att # Immediate
        /\ attempts[caller[c].att] = "connected"

\* C5: while isConnected holds no connection attempt is started, and a call of
\* connectDB returns success at once and changes nothing of the connection state.
C5_IdempotentWhenConnected ==
    [][ isConnected =>
            /\ Len(attempts') = Len(attempts)
            /\ \A c \in Callers :
                  CallStep(c)
                      => /\ caller'[c] = [pc |-> "ok", att |-> Immediate]
                         /\ UNCHANGED <<isConnected, connectionPromise, connectionAttempts, attempts>>
      ]_vars

C5_Witness ==
    /\ isConnected
    /\ \E c, d \in Callers :
          /\ caller[c] = [pc |-> "ok", att |-> Immediate]
          /\ caller[d].pc = "ok"
          /\ caller[d].att # Immediate

\* C6: a getCachedData(key) returns the value of the last setCachedData(key, value)
\* when that call is less than CACHE_TTL old, and null otherwise (no call yet, or
\* the call is CACHE_TTL old or older).
C6_RoundTripUntilExpiry ==
    [][ got' # got =>
            got'.value =
                IF /\ got'.key \in DOMAIN lastSet
                   /\ now - lastSet[got'.key].at < CACHE_TTL
                THEN lastSet[got'.key].value
                ELSE Null
      ]_vars

C6_Witness ==
    /\ got.key \in DOMAIN lastSet
    /\ got.at - lastSet[got.key].at = CACHE_TTL
    /\ got.value = Null
    /\ \E k \in DOMAIN lastSet : k # got.key /\ now - lastSet[k].at < CACHE_TTL

\* C7: setCachedData(key, value) replaces the entry of key, whatever its state,
\* by the value stamped with the current time, and leaves every other key as it
\* was; the entry is then valid until CACHE_TTL after that call.
C7_SetOverwrites ==
    [][ /\ \A k \in DOMAIN lastSet' :
              (k \notin DOMAIN lastSet \/ lastSet'[k] # lastSet[k])
                  => /\ k \in DOMAIN cache'
                     /\ cache'[k] = [data |-> lastSet'[k].value, timestamp |-> now]
                     /\ DOMAIN cache' = DOMAIN cache \cup {k}
                     /\ \A j \in DOMAIN cache : j # k => cache'[j] = cache[j]
        /\ \A k \in DOMAIN lastSet' :
              (EntryState(k)' = "valid") <=> (now' - lastSet'[k].at < CACHE_TTL)
      ]_vars

C7_Witness ==
    \E k \in DOMAIN lastSet :
        /\ lastSet[k].over = "expired"
        /\ cache[k].timestamp = lastSet[k].at
        /\ now - cache[k].timestamp = CACHE_TTL - 1
        /\ \E j \in DOMAIN cache : j # k

\* C8: once a closure with reason "logged out" has been reported, no further
\* connectToWhatsApp() call is made, whatever events arrive afterwards.
C8_NoReconnectAfterLogout ==
    [][ loggedOut => connectCalls' = connectCalls ]_vars

\* C9: every closure reported with a reason other than "logged out", a closure
\* with no error included, makes exactly one connectToWhatsApp() call in the
\* handler itself, however many calls were made before.
C9_RecoverableClosureReconnects ==
    [][ ( /\ lastUpdate'.n # lastUpdate.n
          /\ lastUpdate'.connection = "close"
          /\ lastUpdate'.reason # "loggedOut" )
            => /\ connectCalls' = connectCalls + 1
               /\ pendingConnects' = pendingConnects + 1
      ]_vars

C9_Witness ==
    /\ connectCalls >= 3
    /\ lastUpdate.connection = "close"
    /\ lastUpdate.reason = "noError"
    /\ ~loggedOut

\* C10: a delivery none of whose messages carries an image (no message body, or
\* another message type) ends in the handler's synchronous part: it stores no
\* record and sends no notification.
C10_NonImageEventIsNoOp ==
    [][ /\ \A i \in DOMAIN tasks' :
              ~CarriesImage(tasks'[i].messages)
                  => /\ tasks'[i].pc \in {"returned", "threw"}
                     /\ i \notin DOMAIN tasks => (images' = images /\ sent' = sent)
        /\ \A n \in DOMAIN sent' : CarriesImage(tasks'[sent'[n].task].messages)
      ]_vars

C10_Witness ==
    \E i, j \in DOMAIN tasks :
        /\ Len(tasks[i].messages) = 1
        /\ tasks[i].messages[1].keys = NoBody
        /\ tasks[i].pc = "returned"
        /\ Len(tasks[j].messages) = 2
        /\ tasks[j].messages[1].keys = <<"conversation">>
        /\ ~CarriesImage(tasks[j].messages)
        /\ tasks[j].pc = "returned"

\* A handler run that has ended.
Finished(i) == tasks[i].pc \in {"threw", "returned", "saved", "notified", "rejected"}

\* The sock.sendMessage calls handler run i has made: one on entering the catch block.
SendCalls(i) == IF tasks[i].pc \in {"notify", "notified", "rejected"} THEN 1 ELSE 0

\* The notices of handler run i that went out.
Notices(i) == {n \in DOMAIN sent : sent[n].task = i}

\* C11: every image-bearing message the transport delivers, each message of a
\* multi-message delivery included, ends with a stored record of its id or with
\* a failure notice to its sender.
C11_EveryImageStoredOrNotified ==
    \A i \in DOMAIN tasks :
        Finished(i) =>
            \A j \in DOMAIN tasks[i].messages :
                HasImage(tasks[i].messages[j]) =>
                    \/ \E k \in DOMAIN images : images[k].messageId = tasks[i].messages[j].id
                    \/ \E n \in Notices(i) : sent[n].to = tasks[i].messages[j].remoteJid

\* C12: a handler run whose save succeeds calls sock.sendMessage never and sends
\* nothing; a run whose save fails, a duplicate messageId included, calls
\* sock.sendMessage exactly once, for that message's sender, so that at most one
\* notice goes out and exactly one when the call resolves.
C12_OneNoticePerFailedSave ==
    \A i \in DOMAIN tasks :
        /\ tasks[i].pc = "saved" => (SendCalls(i) = 0 /\ Notices(i) = {})
        /\ tasks[i].error \in {"duplicate", "save"} =>
              /\ SendCalls(i) = 1
              /\ Cardinality(Notices(i)) <= 1
              /\ tasks[i].pc = "notified" => Cardinality(Notices(i)) = 1
              /\ \A n \in Notices(i) : sent[n].to = tasks[i].messages[1].remoteJid

C12_Witness ==
    \E i, j \in DOMAIN tasks :
        /\ tasks[i].pc = "saved"
        /\ tasks[j].pc = "notified"
        /\ tasks[j].error = "duplicate"
        /\ HandlerEntry(tasks[j].messages) = "download"
        /\ tasks[j].messages[1].id = tasks[i].messages[1].id
        /\ Cardinality(Notices(j)) = 1

\* C13: a failure of sock.sendMessage while sending the failure notice stays
\* inside the handler: the handler's promise never rejects.
C13_SendFailureSwallowed ==
    \A i \in DOMAIN tasks : tasks[i].pc # "rejected"

\* C14 as stated: the sender gets a failure notice only when saving the record
\* failed.
C14_NoticeOnlyOnSaveFailure ==
    \A n \in DOMAIN sent : tasks[sent[n].task].error \in {"duplicate", "save"}

\* C14: the sender gets a failure notice only when processing an image message
\* failed, in the media download or in the save: a run that ignored its
\* delivery or saved its record sends none.
C14_NoticeOnlyOnProcessingFailure ==
    /\ \A n \in DOMAIN sent :
          /\ tasks[sent[n].task].error \in {"download", "duplicate", "save"}
          /\ HandlerEntry(tasks[sent[n].task].messages) = "download"
    /\ \A i \in DOMAIN tasks :
          tasks[i].pc \in {"threw", "returned", "saved"} => Notices(i) = {}

C14_Witness ==
    \E n \in DOMAIN sent, i \in DOMAIN tasks :
        /\ tasks[sent[n].task].error = "download"
        /\ tasks[sent[n].task].pc = "notified"
        /\ tasks[i].pc = "saved"

\* The handler runs for message id whose insert the unique index decided.
IndexDecided(id) ==
    {i \in DOMAIN tasks :
        /\ HandlerEntry(tasks[i].messages) = "download"
        /\ tasks[i].messages[1].id = id
        /\ (tasks[i].pc = "saved" \/ tasks[i].error = "duplicate")}

\* C15: no two stored records share a messageId; of the inserts with one
\* messageId that reach the collection, in sequence or interleaved, exactly one
\* succeeds and the others fail as duplicates; a stored record is never changed.
C15_UniqueMessageId ==
    [][ /\ \A j, k \in DOMAIN images' :
              images'[j].messageId = images'[k].messageId => j = k
        /\ \A id \in {"m1", "m2"} :
              IndexDecided(id)' # {} =>
                  Cardinality({i \in IndexDecided(id)' : tasks'[i].pc = "saved"}) = 1
        /\ Len(images') >= Len(images)
        /\ \A j \in DOMAIN images : images'[j] = images[j]
      ]_vars

C15_Witness ==
    \E i, j \in DOMAIN tasks :
        /\ i < j
        /\ HandlerEntry(tasks[i].messages) = "download"
        /\ HandlerEntry(tasks[j].messages) = "download"
        /\ tasks[i].messages[1].id = "m1"
        /\ tasks[i].error = "duplicate"
        /\ tasks[j].messages[1].id = "m1"
        /\ tasks[j].pc = "saved"
        /\ tasks[j].doc.imageData # tasks[i].doc.imageData
        /\ \E k \in DOMAIN images : images[k] = tasks[j].doc

\* The record of ObjectId oid among the first n records stored, as findById
\* returns it.
StoredAt(imgs, oid, n) == SelectSeq(SubSeq(imgs, 1, n), LAMBDA d : d._id = oid)

\* C16: GET /api/image/:id answers 404 exactly when its query found no record of
\* that id, and that answer leaves the cache as it was: the cache holds under an
\* image key nothing but the data of the stored record of that id, so that a
\* request made once the record is stored is answered with the record.
C16_NotFoundNotCached ==
    [][ /\ \A c \in Callers :
              /\ req'[c].status = 404 =>
                    /\ req'[c].from = "db"
                    /\ StoredAt(images', castObjectId(req'[c].q.id), req'[c].seen) = <<>>
              /\ (req'[c].pc = "done" /\ req'[c].from = "db") =>
                    IF StoredAt(images', castObjectId(req'[c].q.id), req'[c].seen) = <<>>
                    THEN req'[c].status = 404
                    ELSE /\ req'[c].status = 200
                         /\ req'[c].body[1].imageData =
                                images'[castObjectId(req'[c].q.id)].imageData
              /\ (req[c].status # 404 /\ req'[c].status = 404) => cache' = cache
        /\ \A id \in ReqIds :
              ImageKeyOf[id] \in DOMAIN cache' =>
                  \E k \in DOMAIN images' :
                      /\ images'[k]._id = castObjectId(id)
                      /\ cache'[ImageKeyOf[id]].data =
                             [contentType |-> images'[k].contentType,
                              imageData |-> images'[k].imageData]
      ]_vars

C16_Witness ==
    \E c, d \in Callers :
        /\ req[c].q = ImageQuery("o1")
        /\ req[c].status = 404
        /\ req[d].q = ImageQuery("o1")
        /\ req[d].status = 200
        /\ req[d].from = "db"
        /\ req[d].body = <<[contentType |-> "image/png", imageData |-> "d1"]>>
        /\ now = 0

\* C17: a listing answered from the cache was cached by a request for the same
\* page and the same page size.
C17_PageKeyScopedToSize ==
    \A c \in Callers :
        (req[c].pc = "done" /\ req[c].q.route = "list" /\ req[c].from = "cache") =>
            /\ req[c].filler.route = "list"
            /\ req[c].filler.page = req[c].q.page
            /\ req[c].filler.limit = req[c].q.limit

\* The ids of the records of a listing.
IdsOf(body) == {body[i]._id : i \in DOMAIN body}

\* C18: over one store of n records, more than one page and at most two, the
\* listings of page 1 and page 2 read from the database hold limit and
\* n - limit records, which together are the n records, newest first.
C18_PagesPartitionStore ==
    \A c, d \in Callers :
        ( /\ req[c].pc = "done" /\ req[c].from = "db" /\ req[c].q.route = "list"
          /\ req[d].pc = "done" /\ req[d].from = "db" /\ req[d].q.route = "list"
          /\ req[c].q.page = 1 /\ req[d].q.page = 2
          /\ req[c].q.limit = req[d].q.limit
          /\ req[c].seen = req[d].seen
          /\ req[c].seen > req[c].q.limit
          /\ req[c].seen <= 2 * req[c].q.limit )
        => /\ Len(req[c].body) = req[c].q.limit
           /\ Len(req[d].body) = req[c].seen - req[c].q.limit
           /\ IdsOf(req[c].body) \cap IdsOf(req[d].body) = {}
           /\ IdsOf(req[c].body) \cup IdsOf(req[d].body) = 1..req[c].seen
           /\ \A i, j \in DOMAIN (req[c].body \o req[d].body) :
                  i < j => (req[c].body \o req[d].body)[i].timestamp
                               >= (req[c].body \o req[d].body)[j].timestamp

\* What the route sends for a record.
Served(d) == <<[contentType |-> d.contentType, imageData |-> d.imageData]>>

\* C19 as stated: once the image message m1 is stored, a request for
\* /api/image/m1 that neither the connection nor the database fails is
\* answered 200 with the record's content type and bytes.
C19_RetrievalByMessageId ==
    \A c \in Callers :
        ( /\ req[c].pc = "done"
          /\ req[c].q = ImageQuery("m1")
          /\ req[c].from \notin {"connect", "query"}
          /\ \E k \in 1..req[c].seen : images[k].messageId = "m1" )
        => /\ req[c].status = 200
           /\ \E k \in DOMAIN images :
                  images[k].messageId = "m1" /\ req[c].body = Served(images[k])

\* C19: once the image message m1 is stored, a request for the ObjectId of its
\* record that reaches the database is answered 200 with the record's content
\* type and bytes, and so is a request answered from the cache; a request for
\* /api/image/m1 is answered 500, m1 being no ObjectId; a second delivery of m1
\* fails as a duplicate, makes the handler call sock.sendMessage once for the
\* sender and leaves the one record of m1 as the first save stored it.
C19_RetrievalByObjectId ==
    /\ \A c \in Callers :
          req[c].pc = "done" =>
              /\ req[c].q = ImageQuery("m1") =>
                    (req[c].status = 500 /\ req[c].from \in {"connect", "cast"})
              /\ ( /\ req[c].q = ImageQuery("o1")
                   /\ req[c].from = "db"
                   /\ StoredAt(images, 1, req[c].seen) # <<>> )
                 => /\ req[c].status = 200
                    /\ req[c].body = Served(StoredAt(images, 1, req[c].seen)[1])
              /\ req[c].from = "cache" =>
                    /\ req[c].status = 200
                    /\ \E k \in DOMAIN images :
                          images[k]._id = 1 /\ req[c].body = Served(images[k])
    /\ \A j \in DOMAIN tasks :
          tasks[j].error = "duplicate" =>
              /\ SendCalls(j) = 1
              /\ \A n \in Notices(j) : sent[n].to = "s1"
              /\ Cardinality({k \in DOMAIN images : images[k].messageId = "m1"}) = 1
              /\ \E i \in DOMAIN tasks, k \in DOMAIN images :
                    i # j /\ tasks[i].pc = "saved" /\ images[k] = tasks[i].doc

C19_Witness ==
    \E c, d \in Callers, j \in DOMAIN tasks :
        /\ req[c].q = ImageQuery("o1")
        /\ req[c].status = 200
        /\ req[c].body = <<[contentType |-> "image/png", imageData |-> Bytes10]>>
        /\ req[d].q = ImageQuery("m1")
        /\ req[d].from = "cast"
        /\ req[d].seen >= 1
        /\ tasks[j].error = "duplicate"
        /\ tasks[j].pc = "notified"
        /\ tasks[j].doc.imageData = OtherBytes

\* C20: every request that has arrived is answered in the end, once, with 200,
\* 404 or 500, whatever the cache lookup, the connection attempt and the query
\* come to.
C20_EveryRequestAnswered ==
    /\ [](\A c \in Callers :
             /\ req[c].nres <= 1
             /\ req[c].nres = 1 <=> req[c].pc = "done"
             /\ req[c].pc = "done" => req[c].status \in {200, 404, 500})
    /\ \A c \in Callers : (req[c].pc # "idle") ~> (req[c].pc = "done")

C20_Witness ==
    \E c, d \in Callers :
        /\ variant = "simple"
        /\ req[c].pc = "done"
        /\ req[c].from = "query"
        /\ caller[c].att # Immediate
        /\ attempts[caller[c].att] = "failed"
        /\ req[d].pc = "done"
        /\ req[d].status = 404

\* C21: no promise the viewer makes rejects with nobody to catch it: a
\* connection attempt that fails was awaited by every connectDB call that
\* returned its promise, the calls of the retry timer included.
C21_NoUnhandledRejection ==
    \A a \in timerCalls : attempts[a] # "failed"

\* C22: a request that missed the cache and whose awaited connection attempt
\* failed is answered with status 500, and the step that answers it writes
\* nothing to the cache.
C22_ConnectFailureAnswered500 ==
    [][\A c \in Callers :
          (/\ req[c].pc # "done"
           /\ req'[c].pc = "done"
           /\ caller'[c].att # Immediate
           /\ attempts'[caller'[c].att] = "failed")
          => (req'[c].status = 500 /\ cache' = cache)]_vars

\* C23: read-through fill of GET /api/image/:id.  A request that missed the
\* cache and found the record writes the entry image_<id>, with the content
\* type and bytes it answers, in the step that answers; a request for an id
\* whose entry was written less than the TTL ago is answered at once from the
\* cache, status 200 with the entry's content type and bytes, without a
\* connectDB call and without a query.
C23_ReadThroughFill ==
    [][\A c \in Callers :
          /\ (/\ req[c].pc = "result"
               /\ req'[c].pc = "done"
               /\ req'[c].q.route = "image"
               /\ req'[c].status = 200)
              => /\ KeyOf(req[c].q) \in DOMAIN cache'
                 /\ cache'[KeyOf(req[c].q)] = [data |-> req'[c].body[1], timestamp |-> now]
                 /\ req[c].res # <<>>
                 /\ req'[c].body[1].contentType = req[c].res[1].contentType
                 /\ req'[c].body[1].imageData = req[c].res[1].imageData
          /\ (/\ req[c].pc = "idle"
               /\ req'[c].pc # "idle"
               /\ req'[c].q.route = "image"
               /\ KeyOf(req'[c].q) \in DOMAIN cache
               /\ now - cache[KeyOf(req'[c].q)].timestamp < Ttl)
              => /\ req'[c].pc = "done"
                 /\ req'[c].status = 200
                 /\ req'[c].from = "cache"
                 /\ req'[c].body = <<cache[KeyOf(req'[c].q)].data>>
                 /\ UNCHANGED <<connVars, cache>>]_vars

\* A request answered from the cache entry that another request's query filled.
C23_Witness ==
    \E c, d \in Callers :
        /\ req[c].pc = "done" /\ req[c].from = "db" /\ req[c].status = 200
        /\ req[d].pc = "done" /\ req[d].from = "cache" /\ req[d].status = 200
        /\ req[d].q = req[c].q
        /\ req[d].q.route = "image"
        /\ req[d].body = req[c].body
        /\ caller[d] = IdleCaller

\* The invocations of the handler that process an image.
ImageTasks == {i \in DOMAIN tasks : HandlerEntry(tasks[i].messages) = "download"}

\* C24: the invocations of the handler interleave at their awaits and do not
\* disturb one another.  A step of one invocation leaves every other
\* invocation where it was; an invocation whose save resolves stores the
\* record of its own message (id, sender, bytes), and the record stays stored;
\* the save of a message whose id no other invocation carries is not a
\* duplicate, whatever the other invocations did meanwhile.
C24_HandlersDoNotInterfere ==
    [][/\ \A i \in DOMAIN tasks :
             tasks'[i] # tasks[i] => \A j \in DOMAIN tasks : j # i => tasks'[j] = tasks[j]
       /\ \A i \in ImageTasks :
             (tasks[i].pc = "save" /\ tasks'[i].pc = "saved")
             => /\ images' = Append(images, tasks[i].doc)
                /\ tasks[i].doc.messageId = tasks[i].messages[1].id
                /\ tasks[i].doc.sender = tasks[i].messages[1].remoteJid
                /\ tasks[i].doc.imageData = tasks[i].messages[1].media
       /\ \A i \in ImageTasks :
             tasks[i].pc = "saved" => \E n \in DOMAIN images' : images'[n] = tasks[i].doc
       /\ \A i \in ImageTasks :
             (/\ tasks'[i].pc = "save"
              /\ \A j \in ImageTasks : j # i => tasks[j].messages[1].id # tasks[i].messages[1].id)
             => \A n \in DOMAIN images' : images'[n].messageId # tasks'[i].doc.messageId]_vars

\* A later event was processed to its end, its record stored, while an earlier
\* one with another message id is still suspended in its save.
C24_Witness ==
    \E i, j \in ImageTasks :
        /\ i < j
        /\ tasks[i].messages[1].id # tasks[j].messages[1].id
        /\ tasks[j].pc = "saved"
        /\ tasks[i].pc = "save"
        /\ \E n \in DOMAIN images : images[n] = tasks[j].doc

\* C25: lazy expiry.  Only a setCachedData call changes the map, and it
\* changes the entry of its own key only: a getCachedData call and the
\* passing of time leave every entry as it is, so an expired entry stays in
\* the map, and a read of an expired entry returns null.
C25_LazyExpiryFrame ==
    [][/\ lastSet' = lastSet => cache' = cache
       /\ got' # got => cache' = cache
       /\ DOMAIN cache \subseteq DOMAIN cache'
       /\ \A k \in DOMAIN cache :
             (k \in DOMAIN lastSet /\ lastSet'[k] = lastSet[k]) => cache'[k] = cache[k]
       /\ \A k \in DOMAIN cache' :
             (got' # got /\ got'.key = k /\ now - cache'[k].timestamp >= Ttl)
             => got'.value = Null]_vars

\* An expired entry, read as absent, is still in the map after the read.
C25_Witness ==
    \E k \in DOMAIN cache :
        /\ EntryState(k) = "expired"
        /\ got.key = k
        /\ got.at = now
        /\ got.value = Null

\* C26: the connected flag is sticky.  Once isConnected is true no step sets it
\* back to false, and no connectDB call starts another connection attempt.
C26_ConnectedFlagSticky ==
    [][isConnected => (isConnected' /\ Len(attempts') = Len(attempts))]_vars

\* connectDB was called with the flag set and returned at once, and an attempt
\* other than the one that connected has failed.
C26_Witness ==
    /\ isConnected
    /\ \E c \in Callers : caller[c] = [pc |-> "ok", att |-> Immediate]
    /\ \E a \in DOMAIN attempts : attempts[a] = "failed"

\* C27: a cached listing never goes backwards.  When a request writes its
\* listing over a valid entry that another request's query filled under the
\* same key, the listing written was read from a store holding at least the
\* records the cached one was read from.
C27_CachedListingNeverOlder ==
    [][\A c, d \in Callers :
          (/\ c # d
           /\ UseCache
           /\ req[c].pc = "result"
           /\ req'[c].pc = "done"
           /\ req[c].q.route \in {"list", "home"}
           /\ req[d].pc = "done"
           /\ req[d].from = "db"
           /\ KeyOf(req[d].q) = KeyOf(req[c].q)
           /\ EntryState(KeyOf(req[c].q)) = "valid"
           /\ cache[KeyOf(req[c].q)].data = req[d].body)
          => req[c].seen >= req[d].seen]_vars

\* C28: the cache is coherent with the store for single images.  Every valid
\* entry image_<id> holds the content type and the bytes of the record stored
\* under that id.
C28_ImageCacheCoherent ==
    \A id \in ReqIds :
        EntryState(ImageKeyOf[id]) = "valid" =>
            \E n \in DOMAIN images :
                /\ images[n]._id = castObjectId(id)
                /\ cache[ImageKeyOf[id]].data.contentType = images[n].contentType
                /\ cache[ImageKeyOf[id]].data.imageData = images[n].imageData

\* The entries of two records of different content are valid at once.
C28_Witness ==
    /\ EntryState(ImageKeyOf["o1"]) = "valid"
    /\ EntryState(ImageKeyOf["o2"]) = "valid"
    /\ cache[ImageKeyOf["o1"]].data # cache[ImageKeyOf["o2"]].data

\* Record n of the store is in the range of the listing q over the first k
\* records of the store, in every order the sort may give to equal timestamps:
\* always without paging, and with paging when the records before it are at
\* least skip and the records not after it at most skip + limit.
InRange(n, k, q) ==
    LET newer == Cardinality({j \in 1..k : images[j].timestamp > images[n].timestamp})
        notOlder == Cardinality({j \in 1..k : images[j].timestamp >= images[n].timestamp})
    IN  IF q.route = "list" /\ variant = "retry"
        THEN newer >= (q.page - 1) * q.limit /\ notOlder <= q.page * q.limit
        ELSE TRUE

\* C29: a listing is stale for the TTL at most.  A listing request that finds
\* the entry of its key stored at least the TTL ago does not answer from it;
\* a listing answered from the database holds every record in its range that
\* the store held when the query ran, the records ingested while an entry was
\* cached included.
C29_BoundedListingStaleness ==
    [][\A c \in Callers :
          /\ (/\ req[c].pc = "idle"
               /\ req'[c].pc # "idle"
               /\ req'[c].q.route \in {"list", "home"}
               /\ KeyOf(req'[c].q) \in DOMAIN cache
               /\ now - cache[KeyOf(req'[c].q)].timestamp >= Ttl)
              => (req'[c].pc \in {"connecting", "querying"} /\ cache' = cache)
          /\ (/\ req[c].pc = "result"
               /\ req'[c].pc = "done"
               /\ req[c].q.route \in {"list", "home"})
              => /\ req'[c].status = 200
                 /\ req'[c].from = "db"
                 /\ \A n \in 1..req[c].seen :
                       InRange(n, req[c].seen, req[c].q)
                       => \E i \in DOMAIN req'[c].body : req'[c].body[i] = images[n]]_vars

\* A listing without the first record was cached at instant 0; a request that
\* arrived at least the TTL later missed that entry and its query has read a
\* listing that holds the record.
C29_Witness ==
    \E c \in Callers :
        /\ req[c].pc = "result"
        /\ req[c].q.route \in {"list", "home"}
        /\ req[c].at >= Ttl
        /\ KeyOf(req[c].q) \in DOMAIN cache
        /\ cache[KeyOf(req[c].q)].timestamp = 0
        /\ images # <<>>
        /\ \A i \in DOMAIN cache[KeyOf(req[c].q)].data :
              cache[KeyOf(req[c].q)].data[i] # images[1]
        /\ \E i \in DOMAIN req[c].res : req[c].res[i] = images[1]
====
